---- MODULE Spec2Model ----
(***************************************************************************)
(* ninetofiver/admin.py: the Django admin of the 925r timesheet            *)
(* application.  The module models the parts of the admin that carry       *)
(* behaviour: the bulk actions of LeaveAdmin and TimesheetAdmin, the       *)
(* GroupAdmin change form, the two status list filters and the columns of  *)
(* PerformanceParentAdmin.  Each part has its own specification; the       *)
(* variables of the other parts stay at their initial values there.        *)
(***************************************************************************)
EXTENDS Integers, Sequences, FiniteSets, TLC

VARIABLES
    leaveStatus,    \* Leave.status of every leave row
    leaveHasDates,  \* whether leave.leavedate_set holds at least one LeaveDate
    lreq,           \* the leave bulk-action request in flight
    outbox,         \* the mails handed to send_mail and delivered, in order
    tsStatus,       \* Timesheet.status of every timesheet row
    tsHist,         \* history: initial status and last action per timesheet
    groupUsers,     \* Group.user_set of every existing group
    baseInitial,    \* GroupForm.base_fields['users'].initial (class attribute)
    greq,           \* the group change-form requests in flight, per thread
    today,          \* date.today()
    ecInput,        \* the queryset handed to EmploymentContractStatusFilter
    ecResult,       \* what its queryset() returned, per selected value
    cInput,         \* the queryset handed to ContractStatusFilter
    cResult,        \* what its queryset() returned, per selected value
    perfObj,        \* the Performance row shown by PerformanceParentAdmin
    perfResult      \* what each column method returned for it

vars == <<leaveStatus, leaveHasDates, lreq, outbox, tsStatus, tsHist,
          groupUsers, baseInitial, greq, today, ecInput, ecResult,
          cInput, cResult, perfObj, perfResult>>

leaveVars == <<leaveStatus, leaveHasDates, lreq, outbox>>
tsVars    == <<tsStatus, tsHist>>
groupVars == <<groupUsers, baseInitial, greq>>
ecVars    == <<ecInput, ecResult>>
cVars     == <<cInput, cResult>>
perfVars  == <<perfObj, perfResult>>

\* What each part's actions leave alone: the other parts.
notLeave  == <<tsVars, groupVars, today, ecVars, cVars, perfVars>>
notTs     == <<leaveVars, groupVars, today, ecVars, cVars, perfVars>>
notGroup  == <<leaveVars, tsVars, today, ecVars, cVars, perfVars>>
notEC     == <<leaveVars, tsVars, groupVars, cVars, perfVars>>
notC      == <<leaveVars, tsVars, groupVars, ecVars, perfVars>>
notPerf   == <<leaveVars, tsVars, groupVars, today, ecVars, cVars>>

(***************************************************************************)
(* Bounds.                                                                 *)
(***************************************************************************)
NumLeaves == 3
NumUsers == 2
NumTimesheets == 3
NumGroups == 2
NumRequests == 2
MaxDay == 3
MaxRows == 2
MaxDuration == 1

Leaves == 1..NumLeaves
Users == 1..NumUsers
Timesheets == 1..NumTimesheets
Groups == 1..NumGroups
Requests == 1..NumRequests
Dates == 1..MaxDay

\* Python's None as a name (of an action, of an exception).
None == "None"

\* A value that may be absent (Python's None, SQL's NULL): <<>> or <<x>>.
NULL == <<>>
Some(x) == <<x>>

(***************************************************************************)
(* Querysets.  A queryset is lazy: it is the changelist's filter plus      *)
(* pk__in=<the ticked rows>, and it is run against the table each time it  *)
(* is used (update(), iteration).                                          *)
(***************************************************************************)
NoFilter == "NoFilter"

\* models.Leave.STATUS
LeaveSTATUS == {"PENDING", "APPROVED", "REJECTED"}

\* list_filter = ('status', ...): the changelist is unfiltered or shows one status.
LeaveListFilter == LeaveSTATUS \cup {NoFilter}

\* The rows a queryset yields when it is run against the table `st`.
QuerysetRows(sel, f, st) == {r \in sel : f = NoFilter \/ st[r] = f}

\* queryset.update(status=new) writing only the rows that are still PENDING.
UpdateOnlyPending(sel, f, st, new) ==
    [r \in DOMAIN st |->
        IF r \in QuerysetRows(sel, f, st) /\ st[r] = "PENDING" THEN new ELSE st[r]]

\* queryset.update(status=new): one UPDATE over the rows the queryset yields now.
QuerysetUpdate(sel, f, st, new) ==
    [r \in DOMAIN st |-> IF r \in QuerysetRows(sel, f, st) THEN new ELSE st[r]]

(***************************************************************************)
(* LeaveAdmin.                                                             *)
(***************************************************************************)
\* leave.user
LeaveUser(l) == ((l - 1) % NumUsers) + 1

\* send_mail(..., fail_silently=True) would swallow a delivery failure.
fail_silently_true == TRUE

\* send_mail(..., fail_silently=False)
fail_silently == FALSE

\* The status word of the mail body for each action.
StatusWord(action) == IF action = "make_approved" THEN "approved" ELSE "rejected"

\* The status each action writes.
NewLeaveStatus(action) == IF action = "make_approved" THEN "APPROVED" ELSE "REJECTED"

\* The mail send_notification_email builds for a leave: recipient
\* [leave.user.email], the leave's own type, description and dates, the word.
NotificationEmail(l, word) == [to |-> LeaveUser(l), leave |-> l, word |-> word]

IdleLeaveRequest ==
    [pc |-> "idle", action |-> None, selected |-> {}, filter |-> NoFilter,
     before |-> <<>>, rows |-> {}, iterated |-> <<>>, failed |-> {}, exc |-> None]

\* The rows the action's queryset yielded when the action was invoked.
Selection == QuerysetRows(lreq.selected, lreq.filter, lreq.before)

LeaveInit ==
    /\ leaveStatus \in [Leaves -> LeaveSTATUS]
    /\ leaveHasDates \in [Leaves -> BOOLEAN]
    /\ lreq = IdleLeaveRequest
    /\ outbox = <<>>

\* The action with its two statements swapped: the loop first, the update after.
LeaveActionNotifyFirst(action, sel, f) ==
    /\ lreq.pc = "idle"
    /\ lreq' = [IdleLeaveRequest EXCEPT
                  !.pc = "sending", !.action = action, !.selected = sel,
                  !.filter = f, !.before = leaveStatus,
                  !.rows = QuerysetRows(sel, f, leaveStatus)]
    /\ outbox' = <<>>
    /\ UNCHANGED <<leaveStatus, leaveHasDates, notLeave>>

\* make_approved / make_rejected up to the head of the for loop:
\* queryset.update(status=...), then `for leave in queryset` runs the queryset
\* again, against the updated table.
LeaveAction(action, sel, f) ==
    /\ lreq.pc = "idle"
    /\ leaveStatus' = QuerysetUpdate(sel, f, leaveStatus, NewLeaveStatus(action))
    /\ lreq' = [IdleLeaveRequest EXCEPT
                  !.pc = "sending", !.action = action, !.selected = sel,
                  !.filter = f, !.before = leaveStatus,
                  !.rows = QuerysetRows(sel, f, leaveStatus')]
    /\ outbox' = <<>>
    /\ UNCHANGED <<leaveHasDates, notLeave>>

\* The admin runs an action only on a non-empty selection, one request at a time here.
MakeApproved(sel, f) ==
    /\ sel # {}
    /\ LeaveAction("make_approved", sel, f)

MakeRejected(sel, f) ==
    /\ sel # {}
    /\ LeaveAction("make_rejected", sel, f)

\* An exception raised in the loop body: the actions have no try/except, so it
\* leaves the action and the loop stops.
Raise(l, e) ==
    lreq' = [lreq EXCEPT !.pc = "raised", !.exc = e, !.rows = @ \ {l},
                         !.iterated = Append(@, l), !.failed = @ \cup {l}]

\* send_notification_email(leave, status), the mail delivered.
SendMailDelivered(l) ==
    /\ lreq.pc = "sending"
    /\ l \in lreq.rows
    /\ leaveHasDates[l]
    /\ outbox' = Append(outbox, NotificationEmail(l, StatusWord(lreq.action)))
    /\ lreq' = [lreq EXCEPT !.rows = @ \ {l}, !.iterated = Append(@, l)]
    /\ UNCHANGED <<leaveStatus, leaveHasDates, notLeave>>

\* send_notification_email(leave, status), the mail backend failing.
SendMailFails(l) ==
    /\ lreq.pc = "sending"
    /\ l \in lreq.rows
    /\ leaveHasDates[l]
    /\ IF fail_silently
       THEN lreq' = [lreq EXCEPT !.rows = @ \ {l}, !.iterated = Append(@, l),
                                 !.failed = @ \cup {l}]
       ELSE Raise(l, "SMTPException")
    /\ UNCHANGED <<leaveStatus, leaveHasDates, outbox, notLeave>>

\* send_notification_email(leave, status) for a leave without leave dates:
\* leavedate_set.first() is None and None.starts_at raises while the body is built.
NoLeaveDates(l) ==
    /\ lreq.pc = "sending"
    /\ l \in lreq.rows
    /\ ~leaveHasDates[l]
    /\ Raise(l, "AttributeError")
    /\ UNCHANGED <<leaveStatus, leaveHasDates, outbox, notLeave>>

\* The for loop is exhausted and the action returns.
LeaveActionReturns ==
    /\ lreq.pc = "sending"
    /\ lreq.rows = {}
    /\ lreq' = [lreq EXCEPT !.pc = "done"]
    /\ UNCHANGED <<leaveStatus, leaveHasDates, outbox, notLeave>>

\* The framework answers the request (the changelist again, or the error page).
LeaveResponse ==
    /\ lreq.pc \in {"done", "raised"}
    /\ lreq' = IdleLeaveRequest
    /\ outbox' = <<>>
    /\ UNCHANGED <<leaveStatus, leaveHasDates, notLeave>>

LeaveNext ==
    \/ \E sel \in SUBSET Leaves, f \in LeaveListFilter : MakeApproved(sel, f)
    \/ \E sel \in SUBSET Leaves, f \in LeaveListFilter : MakeRejected(sel, f)
    \/ \E l \in Leaves : SendMailDelivered(l)
    \/ \E l \in Leaves : SendMailFails(l)
    \/ \E l \in Leaves : NoLeaveDates(l)
    \/ LeaveActionReturns
    \/ LeaveResponse

(***************************************************************************)
(* TimesheetAdmin.                                                         *)
(***************************************************************************)
\* models.Timesheet.STATUS, as far as the actions name it.
TimesheetSTATUS == {"CLOSED", "ACTIVE", "PENDING"}

\* list_filter = ('status',)
TimesheetListFilter == TimesheetSTATUS \cup {NoFilter}

TimesheetActions == {"make_closed", "make_active", "make_pending"}

\* make_pending copied from make_active with the status left as it was.
NewTimesheetStatusCopied(action) ==
    IF action = "make_closed" THEN "CLOSED" ELSE "ACTIVE"

\* The status each timesheet action writes.
NewTimesheetStatus(action) ==
    CASE action = "make_closed" -> "CLOSED"
      [] action = "make_active" -> "ACTIVE"
      [] action = "make_pending" -> "PENDING"

TimesheetInit ==
    /\ tsStatus \in [Timesheets -> TimesheetSTATUS]
    /\ tsHist = [t \in Timesheets |-> [initial |-> tsStatus[t], last |-> None]]

\* make_closed / make_active / make_pending: queryset.update(status=...) and
\* nothing else.  tsHist records which action last had the row in its queryset.
TimesheetAction(action, sel, f) ==
    /\ tsStatus' = QuerysetUpdate(sel, f, tsStatus, NewTimesheetStatus(action))
    /\ tsHist' = [t \in Timesheets |->
                    IF t \in QuerysetRows(sel, f, tsStatus)
                    THEN [tsHist[t] EXCEPT !.last = action]
                    ELSE tsHist[t]]
    /\ UNCHANGED notTs

MakeClosed(sel, f) ==
    /\ sel # {}
    /\ TimesheetAction("make_closed", sel, f)

MakeActive(sel, f) ==
    /\ sel # {}
    /\ TimesheetAction("make_active", sel, f)

MakePending(sel, f) ==
    /\ sel # {}
    /\ TimesheetAction("make_pending", sel, f)

TimesheetNext ==
    \/ \E sel \in SUBSET Timesheets, f \in TimesheetListFilter : MakeClosed(sel, f)
    \/ \E sel \in SUBSET Timesheets, f \in TimesheetListFilter : MakeActive(sel, f)
    \/ \E sel \in SUBSET Timesheets, f \in TimesheetListFilter : MakePending(sel, f)

(***************************************************************************)
(* GroupAdmin and GroupForm.  GroupForm.base_fields is built once, when    *)
(* the class is declared, and every thread of the server shares it;        *)
(* a form instance copies base_fields when it is constructed.              *)
(***************************************************************************)
IdleGroupRequest == [pc |-> "idle", obj |-> NULL, method |-> "GET", pks |-> {}, form |-> NULL]

GroupInit ==
    /\ groupUsers \in UNION {[G -> SUBSET Users] : G \in SUBSET Groups}
    /\ baseInitial = NULL
    /\ greq = [r \in Requests |-> IdleGroupRequest]

\* GroupAdmin.get_form(request, obj): obj is the group of a change request and
\* None for an add request.  pks is computed and stored on the class's field.
GetForm(r, obj, method) ==
    /\ greq[r].pc = "idle"
    /\ obj # NULL => obj[1] \in DOMAIN groupUsers
    /\ LET pks == IF obj # NULL THEN groupUsers[obj[1]] ELSE {}
       IN  /\ baseInitial' = Some(pks)
           /\ greq' = [greq EXCEPT ![r] = [pc |-> "got_form", obj |-> obj,
                                           method |-> method, pks |-> pks,
                                           form |-> NULL]]
    /\ UNCHANGED <<groupUsers, notGroup>>

\* The framework instantiates the class get_form returned: the new form's
\* fields are a deep copy of GroupForm.base_fields as they are now.
InstantiateForm(r) ==
    /\ greq[r].pc = "got_form"
    /\ greq' = [greq EXCEPT ![r].pc = "built", ![r].form = baseInitial]
    /\ UNCHANGED <<groupUsers, baseInitial, notGroup>>

\* GroupAdmin.save_model(request, obj, form, change) of a valid POST:
\* obj.user_set.set(form.cleaned_data['users']).  An add request saves a new group.
SaveModel(r, g, users) ==
    /\ greq[r].pc = "built"
    /\ greq[r].method = "POST"
    /\ IF greq[r].obj # NULL
       THEN g = greq[r].obj[1] /\ g \in DOMAIN groupUsers
       ELSE g \notin DOMAIN groupUsers
    /\ groupUsers' = [x \in DOMAIN groupUsers \cup {g} |->
                        IF x = g THEN users ELSE groupUsers[x]]
    /\ greq' = [greq EXCEPT ![r].pc = "saved"]
    /\ UNCHANGED <<baseInitial, notGroup>>

\* The response is rendered (the form page, or the redirect after a save).
GroupResponse(r) ==
    /\ greq[r].pc \in {"built", "saved"}
    /\ greq' = [greq EXCEPT ![r] = IdleGroupRequest]
    /\ UNCHANGED <<groupUsers, baseInitial, notGroup>>

GroupNext ==
    \/ \E r \in Requests, g \in Groups, m \in {"GET", "POST"} : GetForm(r, Some(g), m)
    \/ \E r \in Requests, m \in {"GET", "POST"} : GetForm(r, NULL, m)
    \/ \E r \in Requests : InstantiateForm(r)
    \/ \E r \in Requests, g \in Groups, users \in SUBSET Users : SaveModel(r, g, users)
    \/ \E r \in Requests : GroupResponse(r)

(***************************************************************************)
(* The status list filters.  queryset.filter(Q) is a SQL WHERE: a          *)
(* comparison with NULL is unknown, AND and OR are three-valued, and a row *)
(* is kept when the condition is true.                                     *)
(***************************************************************************)
SqlLte(a, b) == IF a = NULL THEN "U" ELSE IF a[1] <= b THEN "T" ELSE "F"
\* __lt, for the variant of the filter below that uses it.
SqlLt(a, b) == IF a = NULL THEN "U" ELSE IF a[1] < b THEN "T" ELSE "F"
SqlGte(a, b) == IF a = NULL THEN "U" ELSE IF a[1] >= b THEN "T" ELSE "F"
SqlIsNull(a) == IF a = NULL THEN "T" ELSE "F"
SqlIs(a, b) == IF a = b THEN "T" ELSE "F"
SqlAnd(x, y) ==
    IF x = "F" \/ y = "F" THEN "F" ELSE IF x = "T" /\ y = "T" THEN "T" ELSE "U"
SqlOr(x, y) ==
    IF x = "T" \/ y = "T" THEN "T" ELSE IF x = "F" /\ y = "F" THEN "F" ELSE "U"

\* lookups(): the values the filter offers.
StatusValues == {"active", "ended", "future"}

\* self.value(): one of the lookups, or None when the filter is not used.
FilterValues == StatusValues \cup {None}

NullableDates == {NULL} \cup {Some(d) : d \in Dates}

\* The sets of at most k rows of a table.
RECURSIVE SubsetsUpTo(_, _)
SubsetsUpTo(S, k) ==
    IF k = 0 THEN {{}}
    ELSE LET P == SubsetsUpTo(S, k - 1)
         IN  P \cup {q \cup {x} : q \in P, x \in S}

\* The querysets tried: at most MaxRows rows.
SmallSubsets(S) == SubsetsUpTo(S, MaxRows)

\* EmploymentContract rows: started_at is a date, ended_at may be NULL.
EmploymentContracts == [started_at : {Some(d) : d \in Dates}, ended_at : NullableDates]

\* The 'ended' branch written with ended_at__lt.
ECConditionEndedLt(value, c, d) ==
    CASE value = "active" ->
            SqlAnd(SqlLte(c.started_at, d),
                   SqlOr(SqlGte(c.ended_at, d), SqlIsNull(c.ended_at)))
      [] value = "ended" -> SqlLt(c.ended_at, d)
      [] value = "future" -> SqlGte(c.started_at, d)

\* The 'active' branch without Q(ended_at__isnull=True).
ECConditionNoIsNull(value, c, d) ==
    CASE value = "active" ->
            SqlAnd(SqlLte(c.started_at, d), SqlGte(c.ended_at, d))
      [] value = "ended" -> SqlLte(c.ended_at, d)
      [] value = "future" -> SqlGte(c.started_at, d)

\* The condition each branch of EmploymentContractStatusFilter.queryset
\* filters by, for row c on the day d = date.today().
ECCondition(value, c, d) ==
    CASE value = "active" ->
            SqlAnd(SqlLte(c.started_at, d),
                   SqlOr(SqlGte(c.ended_at, d), SqlIsNull(c.ended_at)))
      [] value = "ended" -> SqlLte(c.ended_at, d)
      [] value = "future" -> SqlGte(c.started_at, d)

\* EmploymentContractStatusFilter.queryset(request, queryset): the filtered
\* queryset, or None (no branch taken) when no value is selected.
ECQueryset(value, qs, d) ==
    IF value \in StatusValues
    THEN Some({c \in qs : ECCondition(value, c, d) = "T"})
    ELSE NULL

ECInit ==
    /\ ecInput \in SmallSubsets(EmploymentContracts)
    /\ ecResult = <<>>

\* The changelist applies the filter with one selected value.
ECFilterApply(value) ==
    /\ value \notin DOMAIN ecResult
    /\ ecResult' = [v \in DOMAIN ecResult \cup {value} |->
                      IF v = value THEN ECQueryset(value, ecInput, today)
                                   ELSE ecResult[v]]
    /\ UNCHANGED <<ecInput, <<today, notEC>>>>

ECNext == \E value \in FilterValues : ECFilterApply(value)

\* Contract rows: starts_at is a date, ends_at may be NULL, active is a boolean.
Contracts == [starts_at : {Some(d) : d \in Dates}, ends_at : NullableDates,
              active : BOOLEAN]

\* The 'ended' branch without | Q(active=False), the 'active' one without
\* & Q(active=True): the dates alone, as in EmploymentContractStatusFilter.
ContractConditionDatesOnly(value, c, d) ==
    CASE value = "active" ->
            SqlAnd(SqlLte(c.starts_at, d),
                   SqlOr(SqlGte(c.ends_at, d), SqlIsNull(c.ends_at)))
      [] value = "ended" -> SqlLte(c.ends_at, d)
      [] value = "future" -> SqlGte(c.starts_at, d)

\* The condition each branch of ContractStatusFilter.queryset filters by.
ContractCondition(value, c, d) ==
    CASE value = "active" ->
            SqlAnd(SqlAnd(SqlLte(c.starts_at, d),
                          SqlOr(SqlGte(c.ends_at, d), SqlIsNull(c.ends_at))),
                   SqlIs(c.active, TRUE))
      [] value = "ended" -> SqlOr(SqlLte(c.ends_at, d), SqlIs(c.active, FALSE))
      [] value = "future" -> SqlGte(c.starts_at, d)

\* ContractStatusFilter.queryset(request, queryset).
ContractQueryset(value, qs, d) ==
    IF value \in StatusValues
    THEN Some({c \in qs : ContractCondition(value, c, d) = "T"})
    ELSE NULL

ContractInit ==
    /\ cInput \in SmallSubsets(Contracts)
    /\ cResult = <<>>

ContractFilterApply(value) ==
    /\ value \notin DOMAIN cResult
    /\ cResult' = [v \in DOMAIN cResult \cup {value} |->
                     IF v = value THEN ContractQueryset(value, cInput, today)
                                  ELSE cResult[v]]
    /\ UNCHANGED <<cInput, <<today, notC>>>>

ContractNext == \E value \in FilterValues : ContractFilterApply(value)

(***************************************************************************)
(* PerformanceParentAdmin: the columns read the row's ActivityPerformance  *)
(* subtype through getattr(obj, 'activityperformance', None) in a          *)
(* try/except.                                                             *)
(***************************************************************************)
Columns == {"duration", "contract", "performance_type", "description", "contract_role"}

\* The ActivityPerformance rows.
ActivityPerformances ==
    [subtype : {"activity"}, duration : 0..MaxDuration, contract : {"c1", "c2"},
     performance_type : {"normal", "overtime"}, description : {"", "text"},
     contract_role : {"dev", "ops"}]

\* A Performance that is no ActivityPerformance ("standby": the accessor raises
\* RelatedObjectDoesNotExist, an AttributeError), and one whose accessor raises
\* something else ("error": the query fails).
OtherPerformances ==
    [subtype : {"standby", "error"}, duration : {0}, contract : {"c1"},
     performance_type : {"normal"}, description : {""}, contract_role : {"dev"}]

Performances == ActivityPerformances \cup OtherPerformances

\* getattr(obj, 'activityperformance', None): the subtype, the default None on
\* an AttributeError, or another exception raised.
GetattrActivity(obj) ==
    CASE obj.subtype = "activity" -> [raised |-> FALSE, value |-> Some(obj)]
      [] obj.subtype = "standby" -> [raised |-> FALSE, value |-> NULL]
      [] obj.subtype = "error" -> [raised |-> TRUE, value |-> NULL]

\* try: ... except AttributeError: would let any other exception escape.
ResolveActivityNarrowExcept(obj) ==
    LET r == GetattrActivity(obj)
    IN  [escaped |-> r.raised, activity |-> r.value]

\* try: activity = getattr(...) except: activity = None
ResolveActivity(obj) ==
    LET r == GetattrActivity(obj)
    IN  [escaped |-> FALSE, activity |-> IF r.raised THEN NULL ELSE r.value]

\* What a column returns when `if activity:` fails.
ColumnDefault(col) ==
    IF col \in {"contract", "performance_type"} THEN Some("Standby") ELSE NULL

\* PerformanceParentAdmin.<col>(obj).  A model instance is always truthy.
Column(col, obj) ==
    LET r == ResolveActivity(obj)
    IN  IF r.escaped THEN <<"raised", "Exception">>
        ELSE IF r.activity # NULL THEN Some(r.activity[1][col])
        ELSE ColumnDefault(col)

PerfInit ==
    /\ perfObj \in Performances
    /\ perfResult = <<>>

\* The changelist renders one column of the row.
RenderColumn(col) ==
    /\ col \notin DOMAIN perfResult
    /\ perfResult' = [c \in DOMAIN perfResult \cup {col} |->
                        IF c = col THEN Column(col, perfObj) ELSE perfResult[c]]
    /\ UNCHANGED <<perfObj, notPerf>>

PerfNext == \E col \in Columns : RenderColumn(col)

(***************************************************************************)
(* The specifications: one per part, the other parts at rest.              *)
(***************************************************************************)
InitLeave ==
    /\ LeaveInit
    /\ tsStatus = <<>>
    /\ tsHist = <<>>
    /\ groupUsers = <<>>
    /\ baseInitial = NULL
    /\ greq = <<>>
    /\ today = 0
    /\ ecInput = {}
    /\ ecResult = <<>>
    /\ cInput = {}
    /\ cResult = <<>>
    /\ perfObj = <<>>
    /\ perfResult = <<>>

SpecLeave == InitLeave /\ [][LeaveNext]_vars

InitTimesheet ==
    /\ leaveStatus = <<>>
    /\ leaveHasDates = <<>>
    /\ lreq = IdleLeaveRequest
    /\ outbox = <<>>
    /\ TimesheetInit
    /\ groupUsers = <<>>
    /\ baseInitial = NULL
    /\ greq = <<>>
    /\ today = 0
    /\ ecInput = {}
    /\ ecResult = <<>>
    /\ cInput = {}
    /\ cResult = <<>>
    /\ perfObj = <<>>
    /\ perfResult = <<>>

SpecTimesheet == InitTimesheet /\ [][TimesheetNext]_vars

InitGroup ==
    /\ leaveStatus = <<>>
    /\ leaveHasDates = <<>>
    /\ lreq = IdleLeaveRequest
    /\ outbox = <<>>
    /\ tsStatus = <<>>
    /\ tsHist = <<>>
    /\ GroupInit
    /\ today = 0
    /\ ecInput = {}
    /\ ecResult = <<>>
    /\ cInput = {}
    /\ cResult = <<>>
    /\ perfObj = <<>>
    /\ perfResult = <<>>

SpecGroup == InitGroup /\ [][GroupNext]_vars

InitECFilter ==
    /\ leaveStatus = <<>>
    /\ leaveHasDates = <<>>
    /\ lreq = IdleLeaveRequest
    /\ outbox = <<>>
    /\ tsStatus = <<>>
    /\ tsHist = <<>>
    /\ groupUsers = <<>>
    /\ baseInitial = NULL
    /\ greq = <<>>
    /\ today \in Dates
    /\ ECInit
    /\ cInput = {}
    /\ cResult = <<>>
    /\ perfObj = <<>>
    /\ perfResult = <<>>

SpecECFilter == InitECFilter /\ [][ECNext]_vars

InitContractFilter ==
    /\ leaveStatus = <<>>
    /\ leaveHasDates = <<>>
    /\ lreq = IdleLeaveRequest
    /\ outbox = <<>>
    /\ tsStatus = <<>>
    /\ tsHist = <<>>
    /\ groupUsers = <<>>
    /\ baseInitial = NULL
    /\ greq = <<>>
    /\ today \in Dates
    /\ ecInput = {}
    /\ ecResult = <<>>
    /\ ContractInit
    /\ perfObj = <<>>
    /\ perfResult = <<>>

SpecContractFilter == InitContractFilter /\ [][ContractNext]_vars

InitPerformance ==
    /\ leaveStatus = <<>>
    /\ leaveHasDates = <<>>
    /\ lreq = IdleLeaveRequest
    /\ outbox = <<>>
    /\ tsStatus = <<>>
    /\ tsHist = <<>>
    /\ groupUsers = <<>>
    /\ baseInitial = NULL
    /\ greq = <<>>
    /\ today = 0
    /\ ecInput = {}
    /\ ecResult = <<>>
    /\ cInput = {}
    /\ cResult = <<>>
    /\ PerfInit

SpecPerformance == InitPerformance /\ [][PerfNext]_vars

(***************************************************************************)
(* LeaveAdmin: properties, under SpecLeave.                                *)
(***************************************************************************)
\* The leaves the delivered mails are about, in the order of delivery.
Notified == [i \in DOMAIN outbox |-> outbox[i].leave]

\* The status the claims name for each action.
ClaimedLeaveStatus ==
    IF lreq.action = "make_approved" THEN "APPROVED" ELSE "REJECTED"

\* C1: once make_approved (make_rejected) has run, every leave of the selection
\* has status APPROVED (REJECTED) whatever status it had, and every other leave
\* has the status it had before.
C1_SelectionGetsStatus ==
    lreq.pc \in {"done", "raised"} =>
        \A l \in Leaves :
            IF l \in Selection
            THEN leaveStatus[l] = ClaimedLeaveStatus
            ELSE leaveStatus[l] = lreq.before[l]

\* C1 witness: make_approved has returned, having approved a leave that was
\* REJECTED and left a PENDING leave outside the selection alone.
C1_Witness ==
    /\ lreq.pc = "done"
    /\ lreq.action = "make_approved"
    /\ \E l \in Selection : lreq.before[l] = "REJECTED" /\ leaveStatus[l] = "APPROVED"
    /\ \E l \in Leaves \ Selection : leaveStatus[l] = "PENDING"

\* C2: when the action returns, exactly one mail has been sent for every leave
\* of the selection, to that leave's user and with the action's status word,
\* whatever changelist filter the queryset carries.
C2_OneMailPerSelectedLeave ==
    lreq.pc = "done" =>
        \A l \in Selection :
            /\ Cardinality({i \in DOMAIN outbox : outbox[i].leave = l}) = 1
            /\ \A i \in DOMAIN outbox :
                  outbox[i].leave = l =>
                      /\ outbox[i].to = LeaveUser(l)
                      /\ outbox[i].word =
                            (IF lreq.action = "make_approved" THEN "approved" ELSE "rejected")

\* C5: a leave whose mail could not be built (no leave dates) or delivered has
\* made the action raise: the exception is the one of that failure, and the
\* action is not running on.
C5_EmailFailurePropagates ==
    \A l \in lreq.failed :
        /\ lreq.pc = "raised"
        /\ lreq.exc = (IF leaveHasDates[l] THEN "SMTPException" ELSE "AttributeError")

\* C5 witness: the action raised on a leave without dates after a mail was sent.
C5_Witness ==
    /\ lreq.pc = "raised"
    /\ lreq.exc = "AttributeError"
    /\ outbox # <<>>
    /\ \E l \in lreq.failed : ~leaveHasDates[l]

\* C10: while mails are being sent, and after a failure has aborted the action,
\* every leave of the selection has the new status already; the leaves notified
\* are the ones iterated so far, less the failing one.
C10_StatusWrittenBeforeMails ==
    lreq.pc \in {"sending", "raised"} =>
        /\ \A l \in Selection : leaveStatus[l] = ClaimedLeaveStatus
        /\ lreq.pc = "sending" => Notified = lreq.iterated
        /\ lreq.pc = "raised" =>
              /\ lreq.iterated # <<>>
              /\ Notified = SubSeq(lreq.iterated, 1, Len(lreq.iterated) - 1)
              /\ lreq.iterated[Len(lreq.iterated)] \in lreq.failed

\* C10 witness: the action failed on its second leave, a third not iterated
\* yet, all three with the new status and only the first notified.
C10_Witness ==
    /\ lreq.pc = "raised"
    /\ Len(outbox) = 1
    /\ Len(lreq.iterated) = 2
    /\ lreq.rows # {}
    /\ \A l \in Selection : lreq.before[l] # ClaimedLeaveStatus

(***************************************************************************)
(* TimesheetAdmin: properties, under SpecTimesheet.                        *)
(***************************************************************************)
\* C3: each timesheet has the status of the last action whose selection held
\* it (make_closed: CLOSED, make_active: ACTIVE, make_pending: PENDING), or
\* its initial status when none did; and no mail has been sent.
C3_LastActionDecides ==
    /\ \A t \in Timesheets :
          tsStatus[t] =
              CASE tsHist[t].last = None -> tsHist[t].initial
                [] tsHist[t].last = "make_closed" -> "CLOSED"
                [] tsHist[t].last = "make_active" -> "ACTIVE"
                [] tsHist[t].last = "make_pending" -> "PENDING"
    /\ outbox = <<>>

\* C3 witness: a CLOSED timesheet set to pending, another one activated, a
\* third never selected.
C3_Witness ==
    /\ \E t \in Timesheets :
          tsHist[t].initial = "CLOSED" /\ tsHist[t].last = "make_pending"
    /\ \E t \in Timesheets : tsHist[t].last = "make_active"
    /\ \E t \in Timesheets : tsHist[t].last = None

(***************************************************************************)
(* GroupAdmin: properties, under SpecGroup.                                *)
(***************************************************************************)
\* C6: whatever the interleaving of the requests, the form built for a request
\* has as the initial value of 'users' the members get_form read for that
\* request's own group (none for an add request).
C6_FormShowsOwnGroup ==
    \A r \in Requests :
        greq[r].pc = "built" => greq[r].form = Some(greq[r].pks)

(***************************************************************************)
(* The status filters: properties, under SpecECFilter, SpecContractFilter. *)
(***************************************************************************)
\* The date predicates as the claims word them; a comparison with an absent
\* date does not hold.
OnOrBefore(x, d) == x # NULL /\ x[1] <= d
OnOrAfter(x, d) == x # NULL /\ x[1] >= d

ClaimedEC(value, c) ==
    CASE value = "active" ->
            OnOrBefore(c.started_at, today)
            /\ (OnOrAfter(c.ended_at, today) \/ c.ended_at = NULL)
      [] value = "ended" -> OnOrBefore(c.ended_at, today)
      [] value = "future" -> OnOrAfter(c.started_at, today)

\* C7: for each of the three values the filter returns the members of its
\* input that satisfy the value's date predicate, a subset of the input, and
\* under 'ended' no contract whose ended_at is null.
C7_ECFilterExact ==
    \A v \in DOMAIN ecResult \cap StatusValues :
        /\ ecResult[v] # NULL
        /\ ecResult[v][1] = {c \in ecInput : ClaimedEC(v, c)}
        /\ ecResult[v][1] \subseteq ecInput
        /\ v = "ended" => \A c \in ecResult[v][1] : c.ended_at # NULL

\* C7 witness: 'ended' was applied to an open-ended contract and one that
\* ended today, and kept only the latter.
C7_Witness ==
    /\ "ended" \in DOMAIN ecResult
    /\ \E c \in ecInput : c.ended_at = NULL
    /\ \E c \in ecResult["ended"][1] : c.ended_at = Some(today)
    /\ Cardinality(ecResult["ended"][1]) = 1

\* C8: a contract with active=False is never returned by 'active' and always
\* by 'ended'; one with active=True is returned by 'active' exactly when
\* starts_at <= today and (ends_at >= today or ends_at is null), and by
\* 'ended' exactly when ends_at <= today.
C8_ActiveFlagOverrides ==
    /\ "active" \in DOMAIN cResult =>
          \A c \in cInput :
              c \in cResult["active"][1] <=>
                  /\ c.active
                  /\ OnOrBefore(c.starts_at, today)
                  /\ (OnOrAfter(c.ends_at, today) \/ c.ends_at = NULL)
    /\ "ended" \in DOMAIN cResult =>
          \A c \in cInput :
              c \in cResult["ended"][1] <=>
                  (~c.active \/ OnOrBefore(c.ends_at, today))

\* C8 witness: both values were applied to an inactive contract whose dates
\* span today and that has no end: 'ended' returned it, 'active' did not.
C8_Witness ==
    /\ {"active", "ended"} \subseteq DOMAIN cResult
    /\ \E c \in cInput :
          /\ ~c.active /\ c.ends_at = NULL /\ OnOrBefore(c.starts_at, today)
          /\ c \in cResult["ended"][1]
          /\ c \notin cResult["active"][1]
    /\ \E c \in cInput : c.active /\ c \in cResult["active"][1]

\* The values of EmploymentContractStatusFilter that returned contract c.
ReturnedBy(c) == {v \in DOMAIN ecResult \cap StatusValues : c \in ecResult[v][1]}

\* The contracts C9 is about: started_at set, ended_at null or not before it.
WellFormed(c) ==
    c.started_at # NULL /\ (c.ended_at = NULL \/ c.started_at[1] <= c.ended_at[1])

\* C9 as stated: every such contract is returned by exactly one of 'active',
\* 'ended' and 'future', also when started_at or ended_at is today.
C9_ExactlyOneStatus ==
    StatusValues \subseteq DOMAIN ecResult =>
        \A c \in ecInput : WellFormed(c) => Cardinality(ReturnedBy(c)) = 1

\* C9 amended: every such contract is returned by at least one of the three
\* values, and by exactly one when neither started_at nor ended_at is today.
C9_CoverAndDisjointOffToday ==
    StatusValues \subseteq DOMAIN ecResult =>
        \A c \in ecInput :
            WellFormed(c) =>
                /\ Cardinality(ReturnedBy(c)) >= 1
                /\ (c.started_at # Some(today) /\ c.ended_at # Some(today))
                      => Cardinality(ReturnedBy(c)) = 1

\* C9 witness: the three values were applied to an open-ended contract that
\* started before today (only 'active' returns it) and to one that starts and
\* ends today (all three return it).
C9_Witness ==
    /\ StatusValues \subseteq DOMAIN ecResult
    /\ \E c \in ecInput :
          /\ c.ended_at = NULL /\ c.started_at[1] < today
          /\ ReturnedBy(c) = {"active"}
    /\ \E c \in ecInput :
          /\ c.started_at = Some(today) /\ c.ended_at = Some(today)
          /\ ReturnedBy(c) = StatusValues

(***************************************************************************)
(* PerformanceParentAdmin: properties, under SpecPerformance.              *)
(***************************************************************************)
\* C4: no column lets an exception of the subtype lookup escape; without a
\* subtype (missing, or the lookup raising) contract and performance_type are
\* 'Standby' and duration, description and contract_role are None; with one,
\* each column is that attribute of the activity performance.
C4_ColumnsNeverRaise ==
    \A col \in DOMAIN perfResult :
        /\ Len(perfResult[col]) <= 1
        /\ perfObj.subtype \in {"standby", "error"} =>
              IF col \in {"contract", "performance_type"}
              THEN perfResult[col] = <<"Standby">>
              ELSE perfResult[col] = <<>>
        /\ perfObj.subtype = "activity" => perfResult[col] = <<perfObj[col]>>

\* C4 witness: all five columns rendered for a row whose subtype lookup raises.
C4_Witness ==
    /\ perfObj.subtype = "error"
    /\ DOMAIN perfResult = Columns
    /\ perfResult["contract"] = <<"Standby">>
    /\ perfResult["duration"] = <<>>

====
